---- MODULE Spec2Model ----
(***************************************************************************)
(* A model of js-plugin/server.js: the cognitive-complexity scorer         *)
(* (calculateCognitiveComplexity), the function collector                  *)
(* (calculateMetrics), archive root detection (detectZipRootFolder) and    *)
(* the /analyze-zip request handler.                                       *)
(*                                                                         *)
(* A syntax tree is a sequence of nodes in pre-order; every node carries   *)
(* its depth, so the sequence determines the tree.  Node 1 is a top-level  *)
(* function.  Nodes of types that no handler of server.js tells apart      *)
(* (identifiers, literals, expression statements, the function's body      *)
(* block, TryStatement, ...) are left out unless they are needed as a      *)
(* BlockStatement; the parent of a node in the model is its nearest        *)
(* modelled ancestor.                                                      *)
(***************************************************************************)
EXTENDS Integers, Sequences, FiniteSets, TLC

VARIABLES
    tree,          \* the parsed file: pre-order sequence of nodes
    pc,            \* where the program is
    p,             \* calculateMetrics' traversal: the next node to enter
    metrics,       \* calculateMetrics' result record (NOF, functions)
    funcPath,      \* the function being scored (0: none)
    functionName,  \* its resolved name
    baseNesting,   \* its base nesting
    complexity,    \* calculateCognitiveComplexity's accumulator
    nesting,       \* calculateCognitiveComplexity's running nesting
    stack,         \* the scorer's traversal: the nodes entered and not yet exited
    next,          \* the scorer's traversal: the next node to enter
    fnIn,          \* name resolution: the function node and its parent
    zip,           \* detectZipRootFolder: the archive's entries
    detectedRoot,  \* detectZipRootFolder: the result
    req            \* /analyze-zip: the request in flight

vars == <<tree, pc, p, metrics, funcPath, functionName, baseNesting, complexity,
          nesting, stack, next, fnIn, zip, detectedRoot, req>>

\* JavaScript's null / undefined
null == "null"

(***************************************************************************)
(* Node types (Babel)                                                      *)
(***************************************************************************)

\* Babel's Function alias, tested by path.isFunction()
FunctionTypes ==
    {"FunctionDeclaration", "FunctionExpression", "ArrowFunctionExpression",
     "ObjectMethod", "ClassMethod", "ClassPrivateMethod"}

isFunction(n) == n.type \in FunctionTypes
isIfStatement(n) == n.type = "IfStatement"
isSwitchStatement(n) == n.type = "SwitchStatement"
isSwitchCase(n) == n.type = "SwitchCase"
isForStatement(n) == n.type = "ForStatement"
isForInStatement(n) == n.type = "ForInStatement"
isForOfStatement(n) == n.type = "ForOfStatement"
isWhileStatement(n) == n.type = "WhileStatement"
isDoWhileStatement(n) == n.type = "DoWhileStatement"
isCatchClause(n) == n.type = "CatchClause"
isLogicalExpression(n) == n.type = "LogicalExpression"
isConditionalExpression(n) == n.type = "ConditionalExpression"
isCallExpression(n) == n.type = "CallExpression"
isBreakStatement(n) == n.type = "BreakStatement"
isContinueStatement(n) == n.type = "ContinueStatement"
isVariableDeclarator(n) == n.type = "VariableDeclarator"
isObjectProperty(n) == n.type = "ObjectProperty"
isClassMethod(n) == n.type = "ClassMethod"
isObjectMethod(n) == n.type = "ObjectMethod"

\* A node: type, depth in the tree, key (the property of the parent that holds
\* it), operator (LogicalExpression), name (a function's id.name, a call's
\* callee when it is an Identifier, a break/continue's label; else null).
Node(type, depth, key, operator, name) ==
    [type |-> type, depth |-> depth, key |-> key, operator |-> operator, name |-> name]

\* The Program node above the top-level function
ProgramNode == Node("Program", 0, "program", null, null)

(***************************************************************************)
(* Tree navigation (Babel's NodePath: parentPath, and the extent of the    *)
(* subtree that traverse() walks)                                          *)
(***************************************************************************)

\* path.parentPath: the nearest earlier node one level up (0 for node 1)
Parent(t, i) ==
    IF t[i].depth = 0 THEN 0
    ELSE CHOOSE j \in 1..(i - 1) :
            /\ t[j].depth = t[i].depth - 1
            /\ \A k \in (j + 1)..(i - 1) : t[k].depth >= t[i].depth

ParentNode(t, i) == IF Parent(t, i) = 0 THEN ProgramNode ELSE t[Parent(t, i)]

\* The last node of the subtree rooted at i
SubtreeEnd(t, i) ==
    CHOOSE e \in i..Len(t) :
        /\ \A k \in (i + 1)..e : t[k].depth > t[i].depth
        /\ (e = Len(t) \/ t[e + 1].depth <= t[i].depth)

\* The strict ancestors of node i
RECURSIVE Ancestors(_, _)
Ancestors(t, i) ==
    IF Parent(t, i) = 0 THEN {} ELSE {Parent(t, i)} \cup Ancestors(t, Parent(t, i))

Children(t, i) == {j \in (i + 1)..Len(t) : Parent(t, j) = i}

(***************************************************************************)
(* calculateCognitiveComplexity (server.js 156-262)                        *)
(***************************************************************************)

\* a variant of addStructural: the nesting is not added
addStructuralFlat(c, n) == c + 1

\* addStructural(): complexity += 1 + nesting
addStructural(c, n) == c + 1 + n

\* addFundamental(): complexity += 1
addFundamental(c) == c + 1

\* const isElseIf = path.key === 'alternate' && path.parentPath.isIfStatement()
isElseIf(t, i) == t[i].key = "alternate" /\ isIfStatement(ParentNode(t, i))

\* path.node.alternate && path.node.alternate.type !== 'IfStatement'
hasElse(t, i) ==
    \E j \in Children(t, i) : t[j].key = "alternate" /\ t[j].type # "IfStatement"

\* a variant of elseIfCost: the else-if scored like a nested if
elseIfCostCompounding(n) == 1 + n

\* an else-if's cost: complexity += 1 + (nesting - 1)
elseIfCost(n) == 1 + (n - 1)

isLoop(n) ==
    \/ isForStatement(n) \/ isForInStatement(n) \/ isForOfStatement(n)
    \/ isWhileStatement(n) \/ isDoWhileStatement(n)

\* a variant of skipsNested: the scorer walks into nested functions
skipsNestedNever(t, i, f) == FALSE

\* the nested-function test of enter: path.isFunction() && path !== funcPath
\* (funcPath.traverse() visits funcPath's descendants only, never funcPath)
skipsNested(t, i, f) == isFunction(t[i]) /\ i # f

\* B1 recursion: a call whose callee is an Identifier named functionName
isRecursiveCall(n, fname) ==
    /\ isCallExpression(n)
    /\ fname # null /\ fname # ""
    /\ n.name # null /\ n.name = fname

\* break LABEL, continue LABEL
isLabeledJump(n) == (isBreakStatement(n) \/ isContinueStatement(n)) /\ n.name # null

\* a variant of countsLogical: the parent's operator is not compared
countsLogicalAnyOperator(n, par) ==
    /\ n.operator \in {"&&", "||", "??"}
    /\ ~isLogicalExpression(par)

\* a LogicalExpression counts when its parent is not a LogicalExpression of the
\* same operator
countsLogical(n, par) ==
    /\ n.operator \in {"&&", "||", "??"}
    /\ (~isLogicalExpression(par) \/ par.operator # n.operator)

\* enter(path): the new value of complexity
enterComplexity(t, i, c, n, fname) ==
    LET node == t[i]
        c1 == IF isRecursiveCall(node, fname) THEN addFundamental(c) ELSE c
        c2 == IF isLabeledJump(node) THEN addFundamental(c1) ELSE c1
    IN  IF isIfStatement(node) THEN
            LET c3 == IF isElseIf(t, i) THEN c2 + elseIfCost(n) ELSE addStructural(c2, n)
            IN  IF hasElse(t, i) THEN addFundamental(c3) ELSE c3
        ELSE IF isSwitchStatement(node) THEN c2
        ELSE IF isSwitchCase(node) THEN addFundamental(c2)
        ELSE IF isLoop(node) THEN addStructural(c2, n)
        ELSE IF isCatchClause(node) THEN addStructural(c2, n)
        ELSE IF isLogicalExpression(node) THEN
            IF countsLogical(node, ParentNode(t, i)) THEN addFundamental(c2) ELSE c2
        ELSE IF isConditionalExpression(node) THEN addStructural(c2, n)
        ELSE c2

\* a variant of enterNesting: an if does not deepen the nesting
enterNestingIfFlat(t, i, n) ==
    LET node == t[i]
    IN  IF isIfStatement(node) THEN n
        ELSE IF isSwitchStatement(node) THEN n + 1
        ELSE IF isLoop(node) THEN n + 1
        ELSE IF isCatchClause(node) THEN n + 1
        ELSE IF isConditionalExpression(node) THEN n + 1
        ELSE n

\* enter(path): the new value of nesting
enterNesting(t, i, n) ==
    LET node == t[i]
    IN  IF isIfStatement(node) THEN (IF isElseIf(t, i) THEN n ELSE n + 1)
        ELSE IF isSwitchStatement(node) THEN n + 1
        ELSE IF isSwitchCase(node) THEN n
        ELSE IF isLoop(node) THEN n + 1
        ELSE IF isCatchClause(node) THEN n + 1
        ELSE IF isLogicalExpression(node) THEN n
        ELSE IF isConditionalExpression(node) THEN n + 1
        ELSE n

\* a variant of exitNesting: exit decrements for every if, else-if or not
exitNestingEveryIf(t, i, n) ==
    LET node == t[i]
    IN  IF \/ isIfStatement(node) \/ isSwitchStatement(node) \/ isLoop(node)
           \/ isCatchClause(node) \/ isConditionalExpression(node)
        THEN n - 1
        ELSE n

\* a variant of exitNesting: the switch is missing from exit's list
exitNestingNoSwitch(t, i, n) ==
    LET node == t[i]
    IN  IF isIfStatement(node) THEN (IF ~isElseIf(t, i) THEN n - 1 ELSE n)
        ELSE IF isLoop(node) \/ isCatchClause(node) \/ isConditionalExpression(node)
             THEN n - 1
        ELSE n

\* exit(path): the new value of nesting
exitNesting(t, i, n) ==
    LET node == t[i]
    IN  IF isIfStatement(node) THEN (IF ~isElseIf(t, i) THEN n - 1 ELSE n)
        ELSE IF \/ isSwitchStatement(node) \/ isLoop(node)
                \/ isCatchClause(node) \/ isConditionalExpression(node)
             THEN n - 1
        ELSE n

(***************************************************************************)
(* calculateMetrics (server.js 18-101)                                     *)
(***************************************************************************)

\* Name resolution.  fn: the function node (type, id: its id's name or null,
\* keyType/keyName: its key).  par: the parent (type, idType/idName: a
\* VariableDeclarator's id, keyType/keyName: an ObjectProperty's key).

\* let functionName = fnNode.id?.name ?? 'anonymous'
ownName(fn) == IF fn.id # null THEN fn.id ELSE "anonymous"

\* if (functionName === 'anonymous') { ... }: the name after the parent and
\* the node's own key are looked at
nameFromParent(fn, par, name) ==
    IF name = "anonymous" THEN
        IF isVariableDeclarator(par) /\ par.idType = "Identifier" THEN par.idName
        ELSE IF isObjectProperty(par) /\ par.keyType = "Identifier" THEN par.keyName
        ELSE IF (isClassMethod(fn) \/ isObjectMethod(fn)) /\ fn.keyType = "Identifier"
             THEN fn.keyName
        ELSE name
    ELSE name

resolveName(fn, par) == nameFromParent(fn, par, ownName(fn))

\* What name resolution reads of a node of the tree
FnView(n) == [type |-> n.type, id |-> n.name, keyType |-> null, keyName |-> null]
ParView(n) ==
    [type |-> n.type, idType |-> null, idName |-> null, keyType |-> null, keyName |-> null]

\* the ancestor kinds that the base nesting counts
countsForBase(n) ==
    \/ isFunction(n) \/ isIfStatement(n)
    \/ isForStatement(n) \/ isForInStatement(n) \/ isForOfStatement(n)
    \/ isWhileStatement(n) \/ isDoWhileStatement(n)
    \/ isSwitchStatement(n) \/ isCatchClause(n)

\* let baseNesting = 0; for each ancestor curr: if (...) baseNesting++
calcBaseNesting(t, i) == Cardinality({a \in Ancestors(t, i) : countsForBase(t[a])})

\* which functions the collector scores: if (!p.isFunction()) return
collects(n) == isFunction(n)

\* a function record; node stands for the record's start/lineStart
FunctionRecord(name, cc, i) == [name |-> name, CC |-> cc, node |-> i]

(***************************************************************************)
(* The parser's output (server.js 20-26): the syntax trees the model is    *)
(* run on.  A label is a node without its place in the tree.               *)
(***************************************************************************)

Label(type, operator, name) == [type |-> type, operator |-> operator, name |-> name]

ExpressionTypes ==
    {"LogicalExpression", "ConditionalExpression", "CallExpression",
     "FunctionExpression", "ArrowFunctionExpression"}

\* the statements that can be an if's else branch
AlternateTypes ==
    {"IfStatement", "BlockStatement", "SwitchStatement", "ForStatement",
     "ForInStatement", "ForOfStatement", "WhileStatement", "DoWhileStatement",
     "BreakStatement", "ContinueStatement"}

\* JavaScript's grammar, as far as it decides which node may hold which
ChildOK(par, lab, key) ==
    /\ par.type \notin {"BreakStatement", "ContinueStatement"}
    /\ (lab.type = "SwitchCase") => isSwitchStatement(par)
    /\ isSwitchStatement(par) => (lab.type = "SwitchCase" \/ lab.type \in ExpressionTypes)
    /\ (par.type \in ExpressionTypes /\ ~isFunction(par)) => lab.type \in ExpressionTypes
    /\ (key = "alternate") => (isIfStatement(par) /\ lab.type \in AlternateTypes)

\* the node of the right spine of t at depth d
SpineAt(t, d) == CHOOSE j \in 1..Len(t) : t[j].depth = d /\ \A k \in (j + 1)..Len(t) : t[k].depth > d

\* t with one more node, in every way the grammar allows (an alternate is the
\* last child of its if)
Extensions(t, L) ==
    LET places ==
            {x \in (1..(t[Len(t)].depth + 1)) \X L \X {"body", "alternate"} :
                LET par == SpineAt(t, x[1] - 1)
                IN  /\ ChildOK(t[par], x[2], x[3])
                    /\ \A c \in Children(t, par) : t[c].key # "alternate"}
    IN  {Append(t, Node(x[2].type, x[1], x[3], x[2].operator, x[2].name)) : x \in places}

\* the top-level function: function f() { ... }
RootFunction == Node("FunctionDeclaration", 0, "body", null, "f")

\* the labels of the trees of Spec
AllLabels ==
    {Label("ArrowFunctionExpression", null, null),
     Label("IfStatement", null, null),
     Label("BlockStatement", null, null),
     Label("SwitchStatement", null, null),
     Label("SwitchCase", null, null),
     Label("WhileStatement", null, null),
     Label("CatchClause", null, null),
     Label("LogicalExpression", "&&", null),
     Label("LogicalExpression", "||", null),
     Label("ConditionalExpression", null, null),
     Label("CallExpression", null, "f"),
     Label("BreakStatement", null, "L")}

\* the most nodes a tree of Spec has below its top-level function
MaxNodes == 3

(***************************************************************************)
(* The collector and the scorer as a state machine                         *)
(***************************************************************************)

NoFn == [fn |-> null, par |-> null]
NoReq == [state |-> "idle"]

otherVars == <<fnIn, zip, detectedRoot, req>>
scorerVars == <<funcPath, functionName, baseNesting, complexity, nesting, stack, next>>

\* the parts of the state that the collector and the scorer do not use
OtherIdle == fnIn = NoFn /\ zip = <<>> /\ detectedRoot = null /\ req = NoReq

Init ==
    /\ tree = <<RootFunction>>
    /\ pc = "parse"
    /\ p = 1
    /\ metrics = [NOF |-> 0, functions |-> <<>>]
    /\ funcPath = 0 /\ functionName = null /\ baseNesting = 0
    /\ complexity = 0 /\ nesting = 0 /\ stack = <<>> /\ next = 0
    /\ OtherIdle

\* parser.parse(code), one node at a time: any tree of at most n nodes below
\* the top-level function, with labels of L
parse(L, n) ==
    /\ pc = "parse" /\ Len(tree) <= n
    /\ tree' \in Extensions(tree, L)
    /\ UNCHANGED <<pc, p, metrics, scorerVars, otherVars>>

\* the parser returns the tree; traverse(ast, {enter}) begins
parsed ==
    /\ pc = "parse"
    /\ pc' = "collect"
    /\ UNCHANGED <<tree, p, metrics, scorerVars, otherVars>>

\* calculateMetrics' enter on a node that is no function: return
metricsEnterOther ==
    /\ pc = "collect" /\ p <= Len(tree)
    /\ ~collects(tree[p])
    /\ p' = p + 1
    /\ UNCHANGED <<tree, pc, metrics, scorerVars, otherVars>>

\* calculateMetrics' enter on a function, up to the call of the scorer
metricsEnterFunction ==
    /\ pc = "collect" /\ p <= Len(tree)
    /\ collects(tree[p])
    /\ functionName' = resolveName(FnView(tree[p]), ParView(ParentNode(tree, p)))
    /\ metrics' = [metrics EXCEPT !.NOF = @ + 1]
    /\ baseNesting' = calcBaseNesting(tree, p)
    /\ funcPath' = p
    /\ complexity' = 0
    /\ nesting' = baseNesting'
    /\ stack' = <<>>
    /\ next' = p + 1
    /\ pc' = "score"
    /\ UNCHANGED <<tree, p, otherVars>>

\* the node the scorer's traversal visits next is below the node it is in
MoreChildren ==
    /\ next <= SubtreeEnd(tree, funcPath)
    /\ (stack # <<>> => next <= SubtreeEnd(tree, stack[Len(stack)].node))

\* A frame of the scorer's traversal: the node, and (history, read by no
\* action) the nesting and the complexity before the node's enter
Frame(i, n, c) == [node |-> i, n0 |-> n, c0 |-> c]

\* the scorer's enter on a nested function: path.skip(); return
scoreSkip ==
    /\ pc = "score" /\ MoreChildren
    /\ skipsNested(tree, next, funcPath)
    /\ next' = SubtreeEnd(tree, next) + 1
    /\ UNCHANGED <<tree, pc, p, metrics, funcPath, functionName, baseNesting,
                   complexity, nesting, stack, otherVars>>

\* the scorer's enter on any other node
scoreEnter ==
    /\ pc = "score" /\ MoreChildren
    /\ ~skipsNested(tree, next, funcPath)
    /\ complexity' = enterComplexity(tree, next, complexity, nesting, functionName)
    /\ nesting' = enterNesting(tree, next, nesting)
    /\ stack' = Append(stack, Frame(next, nesting, complexity))
    /\ next' = next + 1
    /\ UNCHANGED <<tree, pc, p, metrics, funcPath, functionName, baseNesting, otherVars>>

\* the scorer's exit on the node whose children are all visited
scoreExit ==
    /\ pc = "score" /\ ~MoreChildren
    /\ stack # <<>>
    /\ nesting' = exitNesting(tree, stack[Len(stack)].node, nesting)
    /\ stack' = SubSeq(stack, 1, Len(stack) - 1)
    /\ UNCHANGED <<tree, pc, p, metrics, funcPath, functionName, baseNesting,
                   complexity, next, otherVars>>

\* return complexity; metrics.functions.push({name, CC, ...}); the collector's
\* traversal goes on below the function
scoreReturn ==
    /\ pc = "score" /\ ~MoreChildren
    /\ stack = <<>>
    /\ metrics' = [metrics EXCEPT
                     !.functions = Append(@, FunctionRecord(functionName, complexity, funcPath))]
    /\ p' = funcPath + 1
    /\ pc' = "collect"
    /\ funcPath' = 0 /\ functionName' = null /\ baseNesting' = 0
    /\ complexity' = 0 /\ nesting' = 0 /\ next' = 0
    /\ UNCHANGED <<tree, stack, otherVars>>

\* return metrics
metricsReturn ==
    /\ pc = "collect" /\ p > Len(tree)
    /\ pc' = "done"
    /\ UNCHANGED <<tree, p, metrics, scorerVars, otherVars>>

\* the collector and the scorer
Analyze ==
    \/ metricsEnterOther
    \/ metricsEnterFunction
    \/ scoreSkip
    \/ scoreEnter
    \/ scoreExit
    \/ scoreReturn
    \/ metricsReturn

parseAll == parse(AllLabels, MaxNodes)

Next ==
    \/ parseAll
    \/ parsed
    \/ Analyze

Spec == Init /\ [][Next]_vars

(***************************************************************************)
(* Trees of if chains                                                      *)
(***************************************************************************)

ChainLabels ==
    {Label("ArrowFunctionExpression", null, null),
     Label("IfStatement", null, null),
     Label("BlockStatement", null, null),
     Label("WhileStatement", null, null)}

\* the most nodes a tree of SpecChain has below its top-level function
MaxChainNodes == 4

parseChain == parse(ChainLabels, MaxChainNodes)

NextChain ==
    \/ parseChain
    \/ parsed
    \/ Analyze

SpecChain == Init /\ [][NextChain]_vars

(***************************************************************************)
(* What the claims speak of                                                *)
(***************************************************************************)

\* the frame of the node the scorer is in
Top == stack[Len(stack)]

Scoring == pc = "score" /\ stack # <<>>

\* the scorer's enter has just run on the node of the top frame
JustEntered == Scoring /\ Top.node = next - 1

\* the top frame's node and all below it are visited: its exit runs next
AboutToExit == Scoring /\ ~MoreChildren

\* the frame of node i, which is on the stack
FrameOf(i) == stack[CHOOSE k \in 1..Len(stack) : stack[k].node = i]

\* the head of the if chain that the if i is a link of
RECURSIVE ChainHead(_, _)
ChainHead(t, i) == IF isElseIf(t, i) THEN ChainHead(t, Parent(t, i)) ELSE i

ElseBonus(t, i) == IF hasElse(t, i) THEN 1 ELSE 0

\* node j is an empty else block: else {}
EmptyElse(t, j) ==
    /\ t[j].type = "BlockStatement" /\ t[j].key = "alternate"
    /\ SubtreeEnd(t, j) = j

\* the if h heads a chain of empty links: below it there are only its chained
\* else-ifs and, on the last of them, possibly an empty else block
EmptyChain(t, h) ==
    \A j \in (h + 1)..SubtreeEnd(t, h) :
        \/ isIfStatement(t[j]) /\ isElseIf(t, j)
        \/ EmptyElse(t, j)

\* the number of links of the empty chain headed by h
ChainLinks(t, h) == Cardinality({j \in h..SubtreeEnd(t, h) : isIfStatement(t[j])})

\* the empty chain headed by h ends in a non-if else
ChainElse(t, h) == IF \E j \in h..SubtreeEnd(t, h) : EmptyElse(t, j) THEN 1 ELSE 0

\* the score that calculateMetrics reports for the top-level function
TopLevelCC == metrics.functions[1].CC

\* function f() { if (x) {} else if (y) {} }
ElseIfChainTree ==
    <<RootFunction,
      Node("IfStatement", 1, "body", null, null),
      Node("IfStatement", 2, "alternate", null, null)>>

\* C1: while the scorer is in a link of an if chain whose head was entered at
\* nesting n, the running nesting is n + 1 (so no else-if changes it on enter
\* or on exit and every link's body is scored at n + 1); every link adds
\* exactly 1 + n on enter, plus 1 if it has a non-if else; a chain of k empty
\* links adds k * (1 + n), plus 1 for a final else; and
\* if (x) {} else if (y) {} in a top-level function scores 2.
ElseIfChainLinear ==
    /\ (Scoring /\ isIfStatement(tree[Top.node])) =>
          LET i == Top.node
              h == ChainHead(tree, i)
              n == FrameOf(h).n0
          IN  /\ nesting = n + 1
              /\ isElseIf(tree, i) => Top.n0 = n + 1
              /\ JustEntered => complexity - Top.c0 = 1 + n + ElseBonus(tree, i)
              /\ (i = h /\ AboutToExit /\ EmptyChain(tree, h)) =>
                    complexity - Top.c0 = ChainLinks(tree, h) * (1 + n) + ChainElse(tree, h)
    /\ (pc = "done" /\ tree = ElseIfChainTree) => TopLevelCC = 2

\* C1's case: the scorer has walked an empty chain of an if, an else-if and a
\* final else whose head was entered at nesting 1 or more
ElseIfChainWitness ==
    /\ AboutToExit /\ isIfStatement(tree[Top.node])
    /\ ~isElseIf(tree, Top.node) /\ EmptyChain(tree, Top.node)
    /\ ChainLinks(tree, Top.node) >= 2 /\ ChainElse(tree, Top.node) = 1
    /\ Top.n0 >= 1
    /\ complexity - Top.c0 = 2 * (1 + Top.n0) + 1

\* the nodes that get a structural increment
isStructural(t, i) ==
    \/ isIfStatement(t[i]) /\ ~isElseIf(t, i)
    \/ isLoop(t[i]) \/ isCatchClause(t[i]) \/ isConditionalExpression(t[i])

\* function f() { if (x) {} else {} }
IfElseTree ==
    <<RootFunction,
      Node("IfStatement", 1, "body", null, null),
      Node("BlockStatement", 2, "alternate", null, null)>>

\* function f() { if (x) { if (y) {} } }
NestedIfTree ==
    <<RootFunction,
      Node("IfStatement", 1, "body", null, null),
      Node("BlockStatement", 2, "body", null, null),
      Node("IfStatement", 3, "body", null, null)>>

\* function f() { if (x) { if (y) {} } else { return; } }, the consequent's
\* block left out
MixedNestingTree ==
    <<RootFunction,
      Node("IfStatement", 1, "body", null, null),
      Node("IfStatement", 2, "body", null, null),
      Node("BlockStatement", 2, "alternate", null, null)>>

\* C2: entering a non-else-if if, a loop, a catch clause or a ternary at
\* nesting n adds exactly 1 + n, plus 1 for an if with a non-if else, and
\* while the scorer is in that node the running nesting is n + 1; the three
\* examples score 2, 3 and 4.
StructuralIncrement ==
    /\ (Scoring /\ isStructural(tree, Top.node)) =>
          /\ nesting = Top.n0 + 1
          /\ JustEntered =>
                complexity - Top.c0 =
                    1 + Top.n0 + (IF isIfStatement(tree[Top.node])
                                  THEN ElseBonus(tree, Top.node) ELSE 0)
    /\ (pc = "done" /\ tree = IfElseTree) => TopLevelCC = 2
    /\ (pc = "done" /\ tree = NestedIfTree) => TopLevelCC = 3
    /\ (pc = "done" /\ tree = MixedNestingTree) => TopLevelCC = 4

\* C2's case: an if with an else has just been entered at nesting 1
StructuralWitness ==
    /\ JustEntered /\ isIfStatement(tree[Top.node]) /\ ~isElseIf(tree, Top.node)
    /\ hasElse(tree, Top.node)
    /\ Top.n0 = 1
    /\ complexity - Top.c0 = 3

(***************************************************************************)
(* Trees of logical expressions                                            *)
(***************************************************************************)

LogicLabels ==
    {Label("ArrowFunctionExpression", null, null),
     Label("IfStatement", null, null),
     Label("LogicalExpression", "&&", null),
     Label("LogicalExpression", "||", null),
     Label("LogicalExpression", "??", null)}

\* the most nodes a tree of SpecLogic has below its top-level function
MaxLogicNodes == 4

parseLogic == parse(LogicLabels, MaxLogicNodes)

NextLogic ==
    \/ parseLogic
    \/ parsed
    \/ Analyze

SpecLogic == Init /\ [][NextLogic]_vars

\* the nodes of the subtree of i
Subtree(t, i) == i..SubtreeEnd(t, i)

\* node j continues its parent's run: both are logical, with one operator
ContinuesRun(t, j) ==
    /\ isLogicalExpression(t[j]) /\ isLogicalExpression(ParentNode(t, j))
    /\ t[j].operator = ParentNode(t, j).operator

\* the number of maximal same-operator runs in the subtree of i, which holds
\* logical expressions only and whose root i starts a run: every node is in
\* one run, and a run of m nodes has m - 1 parent-child links
RunsIn(t, i) ==
    Cardinality(Subtree(t, i)) - Cardinality({j \in Subtree(t, i) : j # i /\ ContinuesRun(t, j)})

\* function f() { if (a && b && c) {} }
BooleanSequenceTree ==
    <<RootFunction,
      Node("IfStatement", 1, "body", null, null),
      Node("LogicalExpression", 2, "body", "&&", null),
      Node("LogicalExpression", 3, "body", "&&", null)>>

\* C3: a logical expression adds 1 on enter iff its parent is not a logical
\* expression of the same operator, and never changes the nesting; so an
\* expression built of logical operators only adds 1 per maximal run of one
\* operator, whatever the run's size or shape, and if (a && b && c) {} in a
\* top-level function scores 2.
LogicalRunsCountOnce ==
    /\ (Scoring /\ isLogicalExpression(tree[Top.node])) =>
          LET i == Top.node
          IN  /\ nesting = Top.n0
              /\ JustEntered =>
                    complexity - Top.c0 = (IF ContinuesRun(tree, i) THEN 0 ELSE 1)
              /\ (/\ AboutToExit /\ ~ContinuesRun(tree, i)
                  /\ \A j \in Subtree(tree, i) : isLogicalExpression(tree[j])) =>
                    complexity - Top.c0 = RunsIn(tree, i)
    /\ (pc = "done" /\ tree = BooleanSequenceTree) => TopLevelCC = 2

\* C3's case: the scorer has walked an expression of three logical nodes in
\* two runs (such as a && b || c && d ... with one operand a run of its own)
LogicalRunsWitness ==
    /\ AboutToExit /\ isLogicalExpression(tree[Top.node])
    /\ ~ContinuesRun(tree, Top.node)
    /\ \A j \in Subtree(tree, Top.node) : isLogicalExpression(tree[j])
    /\ Cardinality(Subtree(tree, Top.node)) = 3
    /\ complexity - Top.c0 = 2

\* function f() { switch (x) { case 1: break; default: break; } }
SwitchDefaultTree ==
    <<RootFunction,
      Node("SwitchStatement", 1, "body", null, null),
      Node("SwitchCase", 2, "body", null, null),
      Node("SwitchCase", 2, "body", null, null)>>

\* while the scorer is in a switch entered at nesting n the nesting is n + 1,
\* the switch adds nothing on enter; a case or default adds exactly 1 and
\* leaves the nesting as it is
SwitchLevels ==
    /\ (Scoring /\ isSwitchStatement(tree[Top.node])) =>
          /\ nesting = Top.n0 + 1
          /\ JustEntered => complexity = Top.c0
    /\ (Scoring /\ isSwitchCase(tree[Top.node])) =>
          /\ nesting = Top.n0
          /\ Top.n0 = FrameOf(Parent(tree, Top.node)).n0 + 1
          /\ JustEntered => complexity = Top.c0 + 1
    /\ (pc = "done" /\ tree = SwitchDefaultTree) => TopLevelCC = 2

\* the exit of a switch puts the nesting back to what it was before its enter
SwitchExitStep ==
    (Scoring /\ isSwitchStatement(tree[Top.node]) /\ Len(stack') < Len(stack)) =>
        nesting' = Top.n0

\* C4: a switch adds 0 itself, each case and default adds exactly 1 whatever
\* the nesting, what is inside the switch is scored one level deeper and the
\* level is removed when the switch is exited; the example scores 2.
SwitchScoring == []SwitchLevels /\ [][SwitchExitStep]_vars

\* C4's case: a case clause of a switch that is itself nested has just been
\* entered: it added 1 at nesting 2
SwitchWitness ==
    /\ JustEntered /\ isSwitchCase(tree[Top.node])
    /\ nesting = 2
    /\ complexity = Top.c0 + 1

\* the innermost function that encloses node i (0: none)
Owner(t, i) ==
    LET fs == {a \in Ancestors(t, i) : isFunction(t[a])}
    IN  IF fs = {} THEN 0 ELSE CHOOSE a \in fs : \A b \in fs : b <= a

\* the function-like nodes of the tree
FunctionNodes(t) == {i \in 1..Len(t) : isFunction(t[i])}

\* node a opens a nesting level for what is below it
Opens(t, a) == isStructural(t, a) \/ isSwitchStatement(t[a])

\* the nesting depth of node i inside function f, read off the tree
StaticNesting(t, i, f) ==
    calcBaseNesting(t, f) + Cardinality({a \in Ancestors(t, i) : a > f /\ Opens(t, a)})

\* what node i of function f is worth by the scoring rules, read off the tree
Worth(t, i, f, fname) ==
    (IF isRecursiveCall(t[i], fname) THEN 1 ELSE 0)
    + (IF isLabeledJump(t[i]) THEN 1 ELSE 0)
    + (IF isIfStatement(t[i])
          THEN 1 + StaticNesting(t, ChainHead(t, i), f) + ElseBonus(t, i)
       ELSE IF isStructural(t, i) THEN 1 + StaticNesting(t, i, f)
       ELSE IF isSwitchCase(t[i]) THEN 1
       ELSE IF isLogicalExpression(t[i]) /\ ~ContinuesRun(t, i) THEN 1
       ELSE 0)

RECURSIVE SumWorth(_, _, _, _)
SumWorth(t, S, f, fname) ==
    IF S = {} THEN 0
    ELSE LET i == CHOOSE x \in S : TRUE
         IN  Worth(t, i, f, fname) + SumWorth(t, S \ {i}, f, fname)

\* the sum of what the nodes are worth whose innermost function is f
OwnedWorth(t, f, fname) ==
    SumWorth(t, {i \in Subtree(t, f) : i # f /\ Owner(t, i) = f}, f, fname)

\* C5: calculateMetrics emits one record per function-like node, nested ones
\* included, in pre-order, and NOF is the number of records; the scorer of a
\* function never is inside a nested function, and a function's score is the
\* sum of what exactly those nodes are worth whose innermost enclosing
\* function it is.
OneRecordPerFunction ==
    LET fns == metrics.functions
    IN  /\ pc = "done" =>
              /\ metrics.NOF = Len(fns)
              /\ {fns[k].node : k \in 1..Len(fns)} = FunctionNodes(tree)
              /\ \A k \in 1..(Len(fns) - 1) : fns[k].node < fns[k + 1].node
              /\ \A k \in 1..Len(fns) :
                    fns[k].CC = OwnedWorth(tree, fns[k].node, fns[k].name)
        /\ pc = "score" => \A k \in 1..Len(stack) : Owner(tree, stack[k].node) = funcPath

\* C5's case: a function with a nested function, both with constructs of
\* their own, both recorded
NestedFunctionWitness ==
    /\ pc = "done" /\ Len(metrics.functions) = 2
    /\ Owner(tree, metrics.functions[2].node) = 1
    /\ metrics.functions[1].CC >= 1
    /\ metrics.functions[2].CC >= 1

\* the scorer is about to enter an else-if
AtElseIf == pc = "score" /\ MoreChildren /\ isIfStatement(tree[next]) /\ isElseIf(tree, next)

\* scores and the running values are natural numbers, and an else-if is
\* entered only at nesting 1 or more, where its term 1 + (nesting - 1) is >= 1
ScoreNatural ==
    /\ pc = "score" => (complexity \in Nat /\ nesting \in Nat /\ baseNesting \in Nat)
    /\ AtElseIf => (nesting >= 1 /\ elseIfCost(nesting) >= 1)
    /\ \A k \in 1..Len(metrics.functions) : metrics.functions[k].CC \in Nat

\* a step of the scorer never lowers the complexity, and the enter of a node
\* that is scored raises it by 1 or more
ScoreStep ==
    (pc = "score" /\ pc' = "score") =>
        /\ complexity' >= complexity
        /\ (/\ Len(stack') > Len(stack)
            /\ \/ isIfStatement(tree[next]) \/ isStructural(tree, next)
               \/ isSwitchCase(tree[next])) =>
              complexity' >= complexity + 1

\* C10: the score is an integer >= 0 and the running complexity never
\* decreases during the walk: every increment is >= 1, the else-if term
\* included, because an else-if is only entered at nesting >= 1.
ScoreNeverDecreases == []ScoreNatural /\ [][ScoreStep]_vars

\* C10's case: an else-if has just been entered at nesting 1, the least
\* there is, and added 1
ElseIfAtNestingOneWitness ==
    /\ JustEntered /\ isIfStatement(tree[Top.node]) /\ isElseIf(tree, Top.node)
    /\ Top.n0 = 1
    /\ complexity = Top.c0 + 1

(***************************************************************************)
(* Name resolution on its own (server.js 43-55)                            *)
(***************************************************************************)

FnNode(type, id, keyType, keyName) ==
    [type |-> type, id |-> id, keyType |-> keyType, keyName |-> keyName]

ParNode(type, idType, idName, keyType, keyName) ==
    [type |-> type, idType |-> idType, idName |-> idName,
     keyType |-> keyType, keyName |-> keyName]

\* the identifiers that functions, bindings and keys are given
FunctionIds == {"foo", "anonymous"}
BindingNames == {"bar", "baz", "anonymous"}

\* the parents an expression can have: a variable binding (of an identifier or
\* of a pattern), an object property (with an identifier or a string key), or
\* something else (here a call's argument)
ExpressionParents ==
    {ParNode("VariableDeclarator", "Identifier", b, null, null) : b \in BindingNames}
    \cup {ParNode("VariableDeclarator", "ObjectPattern", null, null, null)}
    \cup {ParNode("ObjectProperty", null, null, "Identifier", b) : b \in BindingNames}
    \cup {ParNode("ObjectProperty", null, null, "StringLiteral", null)}
    \cup {ParNode("CallExpression", null, null, null, null)}

\* the keys a method can have
MethodKeys == {<<"Identifier", b>> : b \in BindingNames} \cup {<<"StringLiteral", null>>}

\* every function-like node with its parent, as the parser can produce them
NameInputs ==
    {[fn |-> FnNode("FunctionExpression", id, null, null), par |-> par] :
        id \in FunctionIds \cup {null}, par \in ExpressionParents}
    \cup {[fn |-> FnNode("ArrowFunctionExpression", null, null, null), par |-> par] :
            par \in ExpressionParents}
    \cup {[fn |-> FnNode("FunctionDeclaration", id, null, null),
           par |-> ParNode("Program", null, null, null, null)] : id \in FunctionIds}
    \cup {[fn |-> FnNode("FunctionDeclaration", null, null, null),
           par |-> ParNode("ExportDefaultDeclaration", null, null, null, null)]}
    \cup {[fn |-> FnNode("ObjectMethod", null, k[1], k[2]),
           par |-> ParNode("ObjectExpression", null, null, null, null)] : k \in MethodKeys}
    \cup {[fn |-> FnNode("ClassMethod", null, k[1], k[2]),
           par |-> ParNode("ClassBody", null, null, null, null)] : k \in MethodKeys}
    \cup {[fn |-> FnNode("ClassPrivateMethod", null, "PrivateName", null),
           par |-> ParNode("ClassBody", null, null, null, null)]}

\* the parts of the state that name resolution on its own does not use
CollectorIdle ==
    /\ tree = <<>> /\ p = 0 /\ metrics = [NOF |-> 0, functions |-> <<>>]
    /\ funcPath = 0 /\ baseNesting = 0
    /\ complexity = 0 /\ nesting = 0 /\ stack = <<>> /\ next = 0

collectorVars == <<tree, p, metrics, funcPath, baseNesting, complexity, nesting, stack, next>>

InitName ==
    /\ fnIn \in NameInputs
    /\ pc = "name"
    /\ functionName = null
    /\ CollectorIdle
    /\ zip = <<>> /\ detectedRoot = null /\ req = NoReq

\* let functionName = fnNode.id?.name ?? 'anonymous'
nameOwn ==
    /\ pc = "name"
    /\ functionName' = ownName(fnIn.fn)
    /\ pc' = "nameParent"
    /\ UNCHANGED <<collectorVars, otherVars>>

\* if (functionName === 'anonymous') { ... }
nameParent ==
    /\ pc = "nameParent"
    /\ functionName' = nameFromParent(fnIn.fn, fnIn.par, functionName)
    /\ pc' = "named"
    /\ UNCHANGED <<collectorVars, otherVars>>

NextName ==
    \/ nameOwn
    \/ nameParent

SpecName == InitName /\ [][NextName]_vars

\* the name that the priority order gives a function without an identifier
\* of its own
NameWithoutId(fn, par) ==
    IF isVariableDeclarator(par) /\ par.idType = "Identifier" THEN par.idName
    ELSE IF isObjectProperty(par) /\ par.keyType = "Identifier" THEN par.keyName
    ELSE IF (isClassMethod(fn) \/ isObjectMethod(fn)) /\ fn.keyType = "Identifier"
         THEN fn.keyName
    ELSE "anonymous"

\* C6: the resolved name is the node's own identifier whenever it has one,
\* whatever that identifier and whatever the parent; only a node without one
\* is named after its parent's binding, else its parent property's key, else
\* its own method key, else "anonymous".
NamePriorityOrder ==
    pc = "named" =>
        functionName = (IF fnIn.fn.id # null THEN fnIn.fn.id
                        ELSE NameWithoutId(fnIn.fn, fnIn.par))

(***************************************************************************)
(* detectZipRootFolder (server.js 294-328)                                 *)
(*                                                                         *)
(* An entry name is a sequence of atoms: "/" and "." are the characters,   *)
(* every other atom is a run of characters without a slash.                *)
(***************************************************************************)

isSlash(a) == a = "/"

includesSlash(name) == \E k \in 1..Len(name) : isSlash(name[k])

\* name.replace(/^\.\/+/, ''): a leading "./" goes with every slash that
\* follows it
RECURSIVE dropSlashes(_)
dropSlashes(name) ==
    IF name # <<>> /\ isSlash(Head(name)) THEN dropSlashes(Tail(name)) ELSE name

stripDotSlash(name) ==
    IF Len(name) >= 2 /\ name[1] = "." /\ isSlash(name[2])
    THEN dropSlashes(Tail(name))
    ELSE name

\* clean.split('/')[0]: what stands before the first slash
RECURSIVE firstPart(_)
firstPart(clean) ==
    IF clean = <<>> \/ isSlash(Head(clean)) THEN <<>>
    ELSE <<Head(clean)>> \o firstPart(Tail(clean))

\* return parts[0] || ''
topLevelName(name) == firstPart(stripDotSlash(name))

\* adm-zip: an entry is a directory when its name ends in a slash
isDirectory(name) == name # <<>> /\ isSlash(name[Len(name)])

\* if (!e.entryName || e.isDirectory) continue
skipsEntry(name) == name = <<>> \/ isDirectory(name)

\* a mutant of skipsTop that lets the metadata folder through
skipsTopOnlyEmpty(top) == top = <<>>

\* if (!top || top === '__MACOSX') continue
skipsTop(top) == top = <<>> \/ top = <<"__MACOSX">>

\* what detectZipRootFolder returns: null or a folder name
NullRoot == [isNull |-> TRUE, name |-> <<>>]
Root(name) == [isNull |-> FALSE, name |-> name]

\* counts.set(top, (counts.get(top) || 0) + 1)
countsSet(counts, top) ==
    [k \in DOMAIN counts \cup {top} |->
        IF k = top THEN (IF top \in DOMAIN counts THEN counts[top] ELSE 0) + 1
        ELSE counts[k]]

EmptyMap == [k \in {} |-> 0]

\* the entry names the archives are made of
EntryNames ==
    { <<>>,
      <<"a.js">>,
      <<"__MACOSX">>,
      <<"root", "/">>,
      <<"root", "/", "a.js">>,
      <<"lib", "/", "b.js">>,
      <<".", "/", "a.js">>,
      <<".", "/", "root", "/", "a.js">>,
      <<".", "/", "/", "root", "/", "a.js">>,
      <<"/", "a.js">>,
      <<"__MACOSX", "/">>,
      <<"__MACOSX", "/", "._a.js">>,
      <<"__MACOSX", "/", "root", "/", "._a.js">> }

MaxEntries == 2

Archives(n) == UNION {[1..k -> EntryNames] : k \in 0..n}

ZipState(entries, i, counts, hasTopLevelFiles) ==
    [entries |-> entries, i |-> i, counts |-> counts,
     hasTopLevelFiles |-> hasTopLevelFiles]

InitZip ==
    /\ \E entries \in Archives(MaxEntries) : zip = ZipState(entries, 1, EmptyMap, FALSE)
    /\ pc = "detect"
    /\ detectedRoot = null
    /\ fnIn = NoFn /\ functionName = null /\ req = NoReq
    /\ CollectorIdle

zipIdle == <<collectorVars, functionName, fnIn, req>>

InLoop == pc = "detect" /\ zip.i <= Len(zip.entries)

\* one round of the loop that takes one of its two continue statements
detectContinue ==
    /\ InLoop
    /\ LET e == zip.entries[zip.i]
       IN  skipsEntry(e) \/ skipsTop(topLevelName(e))
    /\ zip' = [zip EXCEPT !.i = @ + 1]
    /\ UNCHANGED <<pc, detectedRoot, zipIdle>>

\* one round of the loop that reaches its end
detectCount ==
    /\ InLoop
    /\ LET e == zip.entries[zip.i]
           top == topLevelName(e)
       IN  /\ ~skipsEntry(e)
           /\ ~skipsTop(top)
           /\ zip' = [zip EXCEPT
                 !.i = @ + 1,
                 !.hasTopLevelFiles = @ \/ ~includesSlash(e),
                 !.counts = countsSet(@, top)]
    /\ UNCHANGED <<pc, detectedRoot, zipIdle>>

\* the three returns after the loop
detectReturn ==
    /\ pc = "detect"
    /\ zip.i > Len(zip.entries)
    /\ detectedRoot' =
         IF zip.hasTopLevelFiles THEN NullRoot
         ELSE IF Cardinality(DOMAIN zip.counts) = 1
              THEN Root(CHOOSE k \in DOMAIN zip.counts : TRUE)
         ELSE NullRoot
    /\ pc' = "detected"
    /\ UNCHANGED <<zip, zipIdle>>

NextZip ==
    \/ detectContinue
    \/ detectCount
    \/ detectReturn

SpecZip == InitZip /\ [][NextZip]_vars

Range(f) == {f[k] : k \in DOMAIN f}

\* the one value of a set that has exactly one, as a result; null otherwise
OnlyOne(S) == IF Cardinality(S) = 1 THEN Root(CHOOSE x \in S : TRUE) ELSE NullRoot

\* the first path segment after a leading "./" is stripped, read literally
FirstSegment(name) ==
    firstPart(IF Len(name) >= 2 /\ name[1] = "." /\ isSlash(name[2])
              THEN Tail(Tail(name)) ELSE name)

\* the rule over all the non-directory entries
RootOverAllFiles(entries) ==
    LET files == {e \in Range(entries) : ~isDirectory(e)}
    IN  IF \E e \in files : ~includesSlash(e) THEN NullRoot
        ELSE OnlyOne({FirstSegment(e) : e \in files})

\* the entries that count: not a directory, and a first segment (after the
\* leading "./" and the slashes that follow it) that is neither empty nor the
\* metadata folder
Counted(entries) ==
    {e \in Range(entries) :
        /\ ~isDirectory(e)
        /\ topLevelName(e) # <<>>
        /\ topLevelName(e) # <<"__MACOSX">>}

RootOverCounted(entries) ==
    IF \E e \in Counted(entries) : ~includesSlash(e) THEN NullRoot
    ELSE OnlyOne({topLevelName(e) : e \in Counted(entries)})

\* C7, as stated: over all the non-directory entries of the archive, null if
\* one of them has no slash in its path, else the single first segment they
\* share, else null.
RootFolderRule == pc = "detected" => detectedRoot = RootOverAllFiles(zip.entries)

\* C7, amended: the same rule over the non-directory entries whose first
\* segment is neither empty nor "__MACOSX"; the other entries decide nothing.
RootFolderRuleOverCounted ==
    pc = "detected" => detectedRoot = RootOverCounted(zip.entries)

\* an archive with its one folder and the metadata folder beside it: the
\* folder is the root
MetadataFolderWitness ==
    /\ pc = "detected"
    /\ \E e \in Range(zip.entries) : ~isDirectory(e) /\ topLevelName(e) = <<"__MACOSX">>
    /\ detectedRoot = Root(<<"root">>)

(***************************************************************************)
(* POST /analyze-zip (server.js 279-291, 330-413)                          *)
(*                                                                         *)
(* The extracted tree under rootPath is a sequence of entries in the order *)
(* readdirSync lists them, depth first, each with its depth below rootPath.*)
(* A name is a sequence of atoms; a file's last atom is its extension.     *)
(* fails is the message of the exception that reading or parsing the file  *)
(* throws, or null.                                                        *)
(***************************************************************************)

FsEntry(name, depth, isDir, fails) ==
    [name |-> name, depth |-> depth, isDir |-> isDir, fails |-> fails]

FsLabel(name, isDir, fails) == [name |-> name, isDir |-> isDir, fails |-> fails]

endsWith(name, ext) == name # <<>> /\ name[Len(name)] = ext

startsWith(name, prefix) == name # <<>> /\ Head(name) = prefix

isCodeFile(file) ==
    endsWith(file, ".jsx") \/ endsWith(file, ".js") \/ endsWith(file, ".ts") \/ endsWith(file, ".tsx")

\* file === 'node_modules' || file.startsWith('.git') || file === 'dist' || file === 'build'
isIgnoredFolder(file) ==
    \/ file = <<"node_modules">>
    \/ startsWith(file, ".git")
    \/ file = <<"dist">>
    \/ file = <<"build">>

\* path.relative(rootPath, fullPath) with '/' as the separator
RECURSIVE relativePath(_, _)
relativePath(fs, i) ==
    IF Parent(fs, i) = 0 THEN fs[i].name
    ELSE relativePath(fs, Parent(fs, i)) \o <<"/">> \o fs[i].name

EmptyMetrics == [NOF |-> 0, functions |-> <<>>]

Returned(value) == [thrown |-> FALSE, value |-> value]
Thrown(message) == [thrown |-> TRUE, message |-> message]

\* a mutant of analyzeFileAt without its try/catch
analyzeFileAtUncaught(fs, i) ==
    IF fs[i].fails = null
    THEN Returned([fileName |-> relativePath(fs, i), metrics |-> EmptyMetrics])
    ELSE Thrown(fs[i].fails)

\* analyzeFileAt: the try block returns fileName and metrics, the catch
\* block fileName and the error's message
analyzeFileAt(fs, i) ==
    IF fs[i].fails = null
    THEN Returned([fileName |-> relativePath(fs, i), metrics |-> EmptyMetrics])
    ELSE Returned([fileName |-> relativePath(fs, i), error |-> fs[i].fails])

\* the messages of the exceptions that reading and parsing throw, and the
\* message of those the file system throws elsewhere
FileErrors == {"EACCES", "SyntaxError"}
SystemError == "EIO"

FsLabels ==
    {FsLabel(d, TRUE, null) :
        d \in {<<"src">>, <<"node_modules">>, <<".git", "hub">>, <<"dist">>, <<"build">>}}
    \cup {FsLabel(<<"a", ".js">>, FALSE, f) : f \in FileErrors \cup {null}}
    \cup {FsLabel(<<"b", ".ts">>, FALSE, null),
          FsLabel(<<"c", ".jsx">>, FALSE, "SyntaxError"),
          FsLabel(<<"d", ".tsx">>, FALSE, null),
          FsLabel(<<"e", ".txt">>, FALSE, null)}

MaxFiles == 3

\* the entries that extraction can write next: inside a directory already
\* written, with a name none of its siblings has
FsExtensions(fs) ==
    {e \in {FsEntry(l.name, d, l.isDir, l.fails) :
                l \in FsLabels,
                d \in 0..(IF fs = <<>> THEN 0 ELSE fs[Len(fs)].depth + 1)} :
        LET t == Append(fs, e)
            i == Len(t)
        IN  /\ Parent(t, i) # 0 => t[Parent(t, i)].isDir
            /\ \A j \in 1..(i - 1) :
                  Parent(t, j) = Parent(t, i) => t[j].name # e.name}

Request(hasFile, dir, created, fs, cursor, results, status, body) ==
    [hasFile |-> hasFile, dir |-> dir, created |-> created, fs |-> fs,
     cursor |-> cursor, results |-> results, status |-> status, body |-> body]

InitReq ==
    /\ \E hasFile \in BOOLEAN :
          req = Request(hasFile, FALSE, FALSE, <<>>, 0, <<>>, 0, null)
    /\ pc = "request"
    /\ detectedRoot = NullRoot
    /\ fnIn = NoFn /\ functionName = null /\ zip = <<>>
    /\ CollectorIdle

reqIdle == <<collectorVars, functionName, fnIn, zip>>

\* if (!req.file) return res.status(400).json(...)
noFile ==
    /\ pc = "request"
    /\ ~req.hasFile
    /\ req' = [req EXCEPT !.status = 400, !.body = [error |-> "No file uploaded"]]
    /\ pc' = "responded"
    /\ UNCHANGED <<detectedRoot, reqIdle>>

\* new AdmZip(req.file.buffer)
openZip ==
    /\ pc = "request"
    /\ req.hasFile
    /\ pc' = "mkdir"
    /\ UNCHANGED <<req, detectedRoot, reqIdle>>

\* if (!fs.existsSync(extractPath)) fs.mkdirSync(extractPath)
mkdir ==
    /\ pc = "mkdir"
    /\ req' = [req EXCEPT !.dir = TRUE, !.created = TRUE]
    /\ pc' = "detect"
    /\ UNCHANGED <<detectedRoot, reqIdle>>

\* const detectedRoot = detectZipRootFolder(zip)
detectRoot ==
    /\ pc = "detect"
    /\ detectedRoot' \in {NullRoot, Root(<<"root">>)}
    /\ pc' = "extract"
    /\ UNCHANGED <<req, reqIdle>>

\* zip.extractAllTo(extractPath, true), one entry under rootPath at a time
extractEntry(n) ==
    /\ pc = "extract"
    /\ Len(req.fs) < n
    /\ \E e \in FsExtensions(req.fs) : req' = [req EXCEPT !.fs = Append(@, e)]
    /\ UNCHANGED <<pc, detectedRoot, reqIdle>>

\* extraction returns; processDirectory(rootPath) begins
extracted ==
    /\ pc = "extract"
    /\ req' = [req EXCEPT !.cursor = 1]
    /\ pc' = "walk"
    /\ UNCHANGED <<detectedRoot, reqIdle>>

Walking == pc = "walk" /\ req.cursor <= Len(req.fs)

\* an ignored folder: return without descending
walkIgnored ==
    /\ Walking
    /\ LET e == req.fs[req.cursor]
       IN  /\ e.isDir
           /\ isIgnoredFolder(e.name)
    /\ req' = [req EXCEPT !.cursor = SubtreeEnd(req.fs, req.cursor) + 1]
    /\ UNCHANGED <<pc, detectedRoot, reqIdle>>

\* any other folder: processDirectory(fullPath)
walkDirectory ==
    /\ Walking
    /\ LET e == req.fs[req.cursor]
       IN  /\ e.isDir
           /\ ~isIgnoredFolder(e.name)
    /\ req' = [req EXCEPT !.cursor = @ + 1]
    /\ UNCHANGED <<pc, detectedRoot, reqIdle>>

\* a source file: results.push(analyzeFileAt(fullPath, rootPath)); an
\* exception that analyzeFileAt lets out reaches the handler's catch block
walkCodeFile ==
    /\ Walking
    /\ LET e == req.fs[req.cursor]
           r == analyzeFileAt(req.fs, req.cursor)
       IN  /\ ~e.isDir
           /\ isCodeFile(e.name)
           /\ IF r.thrown
              THEN /\ req' = [req EXCEPT !.status = 500, !.body = [error |-> r.message]]
                   /\ pc' = "responded"
              ELSE /\ req' = [req EXCEPT !.results = Append(@, r.value), !.cursor = @ + 1]
                   /\ pc' = pc
    /\ UNCHANGED <<detectedRoot, reqIdle>>

\* any other file: nothing
walkOtherFile ==
    /\ Walking
    /\ LET e == req.fs[req.cursor]
       IN  /\ ~e.isDir
           /\ ~isCodeFile(e.name)
    /\ req' = [req EXCEPT !.cursor = @ + 1]
    /\ UNCHANGED <<pc, detectedRoot, reqIdle>>

\* cleanupDirectory(extractPath)
cleanupDirectory ==
    /\ pc = "walk"
    /\ req.cursor > Len(req.fs)
    /\ req' = [req EXCEPT !.dir = FALSE]
    /\ pc' = "respond"
    /\ UNCHANGED <<detectedRoot, reqIdle>>

\* res.json({ rootFolder: detectedRoot || null, totalFiles: results.length, results })
respond ==
    /\ pc = "respond"
    /\ req' = [req EXCEPT
          !.status = 200,
          !.body = [rootFolder |-> detectedRoot,
                    totalFiles |-> Len(req.results),
                    results |-> req.results]]
    /\ pc' = "responded"
    /\ UNCHANGED <<detectedRoot, reqIdle>>

\* the calls of the try block that can throw: the AdmZip constructor,
\* mkdirSync, extractAllTo, readdirSync and statSync, and the calls that
\* cleanupDirectory makes
CanThrow ==
    \/ pc = "request" /\ req.hasFile
    \/ pc \in {"mkdir", "extract", "walk"}

\* catch (error) { res.status(500).json({ error: error.message }) }
catchError ==
    /\ CanThrow
    /\ req' = [req EXCEPT !.status = 500, !.body = [error |-> SystemError]]
    /\ pc' = "responded"
    /\ UNCHANGED <<detectedRoot, reqIdle>>

extractFiles == extractEntry(MaxFiles)

NextReq ==
    \/ noFile
    \/ openZip
    \/ mkdir
    \/ detectRoot
    \/ extractFiles
    \/ extracted
    \/ walkIgnored
    \/ walkDirectory
    \/ walkCodeFile
    \/ walkOtherFile
    \/ cleanupDirectory
    \/ respond
    \/ catchError

SpecReq == InitReq /\ [][NextReq]_vars

Responded(status) == pc = "responded" /\ req.status = status

\* C8: no request that created its extraction directory ends, with 200 or
\* with 500, while the directory still exists.
NoDirectoryLeftBehind == (pc = "responded" /\ req.created) => ~req.dir

\* the source files that the walk discovers: not inside an ignored folder
IsDiscovered(fs, i) ==
    /\ ~fs[i].isDir
    /\ isCodeFile(fs[i].name)
    /\ \A a \in Ancestors(fs, i) : ~isIgnoredFolder(fs[a].name)

\* the discovered source files among the first k entries, in order
RECURSIVE DiscoveredUpTo(_, _)
DiscoveredUpTo(fs, k) ==
    IF k = 0 THEN <<>>
    ELSE DiscoveredUpTo(fs, k - 1) \o (IF IsDiscovered(fs, k) THEN <<k>> ELSE <<>>)

\* result r is the result of file i
ResultOf(fs, i, r) ==
    /\ r.fileName = relativePath(fs, i)
    /\ IF fs[i].fails # null
       THEN DOMAIN r = {"fileName", "error"} /\ r.error = fs[i].fails
       ELSE DOMAIN r = {"fileName", "metrics"}

\* the results are those of the discovered files among the first k entries
ResultsUpTo(results, fs, k) ==
    LET found == DiscoveredUpTo(fs, k)
    IN  /\ Len(results) = Len(found)
        /\ \A j \in 1..Len(found) : ResultOf(fs, found[j], results[j])

\* C9: a file whose read or parse throws gets a result with fileName and
\* error and no metrics, a file that succeeds one with fileName and metrics
\* and no error; the failure does not end the batch: during the walk and in
\* the 200 response the results are those of every discovered file so far,
\* in discovery order, totalFiles is their number, and no 500 response
\* carries a file's error.
FileFailuresStayLocal ==
    /\ pc \in {"walk", "respond"} => ResultsUpTo(req.results, req.fs, req.cursor - 1)
    /\ Responded(200) =>
          /\ ResultsUpTo(req.body.results, req.fs, Len(req.fs))
          /\ req.body.totalFiles = Len(req.body.results)
    /\ Responded(500) => req.body.error \notin FileErrors

\* a 200 response in which the result of a failed file is followed by the
\* result of a file that succeeded
ErrorThenMetricsWitness ==
    /\ Responded(200)
    /\ \E k \in 1..(Len(req.body.results) - 1) :
          /\ "error" \in DOMAIN req.body.results[k]
          /\ "metrics" \in DOMAIN req.body.results[k + 1]

(***************************************************************************)
(* Symmetry of the nesting                                                 *)
(***************************************************************************)

\* the kinds whose enter raises the nesting: an if that is not an else-if, a
\* switch, a loop, a catch clause, a ternary
RaisesNesting(t, i) ==
    \/ isIfStatement(t[i]) /\ ~isElseIf(t, i)
    \/ isSwitchStatement(t[i])
    \/ isLoop(t[i])
    \/ isCatchClause(t[i])
    \/ isConditionalExpression(t[i])

NestingDelta(t, i) == IF RaisesNesting(t, i) THEN 1 ELSE 0

\* the scorer has visited the whole function and is about to return
ScoringFinished == pc = "score" /\ stack = <<>> /\ ~MoreChildren

\* the nesting is never below the base nesting, every frame remembers a
\* nesting that is not below it either, and the nesting is the base nesting
\* when the scorer is about to return
NestingAboveBase ==
    /\ pc = "score" => nesting >= baseNesting
    /\ pc = "score" => \A k \in 1..Len(stack) : stack[k].n0 >= baseNesting
    /\ ScoringFinished => nesting = baseNesting

\* enter raises the nesting by 1 on the kinds that open a level and by 0 on
\* the others, a skipped nested function leaves it alone, and exit gives it
\* back the value it had before the node's enter
NestingStep ==
    (pc = "score" /\ pc' = "score") =>
        /\ Len(stack') > Len(stack) => nesting' = nesting + NestingDelta(tree, next)
        /\ (Len(stack') = Len(stack) /\ next' # next) =>
              isFunction(tree[next]) /\ nesting' = nesting
        /\ Len(stack') < Len(stack) =>
              /\ nesting' = Top.n0
              /\ nesting' = nesting - NestingDelta(tree, Top.node)

\* C11: nesting increments and decrements are symmetric: at every visited
\* node's exit the nesting is what it was just before the node's enter (+1
\* and -1 for an if that is not an else-if, a switch, a loop, a catch and a
\* ternary; 0 and 0 for an else-if, a skipped nested function and the other
\* kinds), so the nesting is never below baseNesting during the walk and is
\* baseNesting when scoring finishes.
NestingSymmetric == []NestingAboveBase /\ [][NestingStep]_vars

\* the scorer has walked a function that holds an else-if and is about to
\* return with the nesting back at the base nesting
ElseIfUnwoundWitness ==
    /\ ScoringFinished
    /\ nesting = baseNesting
    /\ \E i \in (funcPath + 1)..SubtreeEnd(tree, funcPath) :
          /\ isIfStatement(tree[i]) /\ isElseIf(tree, i)
          /\ Owner(tree, i) = funcPath

(***************************************************************************)
(* The base nesting of a nested function                                   *)
(***************************************************************************)

\* the scorer of the function funcPath meets the nested function next, which
\* it skips
MeetsNested == pc = "score" /\ MoreChildren /\ skipsNested(tree, next, funcPath)

\* C12: the base nesting a nested function G is seeded with is 1, for the
\* boundary of the function F around it, plus the nesting F's scorer holds
\* where it meets and skips G, wherever G sits in F; and the scorer of a
\* function runs with the base nesting the collector computes for it.
BaseNestingIsScoredDepth ==
    /\ pc = "score" => baseNesting = calcBaseNesting(tree, funcPath)
    /\ MeetsNested => calcBaseNesting(tree, next) = 1 + nesting

(***************************************************************************)
(* The detected root is a folder                                           *)
(***************************************************************************)

\* the entry's path, without an optional leading "./", is R/<rest> with a
\* <rest> that is not empty
InFolder(name, R) ==
    LET clean == stripDotSlash(name)
    IN  /\ Len(clean) > Len(R) + 1
        /\ SubSeq(clean, 1, Len(R)) = R
        /\ isSlash(clean[Len(R) + 1])

\* the entries that are analysed: the files outside the metadata folder
Analysed(entries) ==
    {e \in Range(entries) : ~isDirectory(e) /\ topLevelName(e) # <<"__MACOSX">>}

\* C13: a root R that is not null is a folder that holds every analysed
\* entry: each file of the archive outside __MACOSX has a path R/<rest>, with
\* or without a leading "./"; so R is never the name of a file, and the
\* archive whose one entry is "./a.js" does not get the root "a.js".
RootIsFolder ==
    (pc = "detected" /\ ~detectedRoot.isNull) =>
        \A e \in Analysed(zip.entries) : InFolder(e, detectedRoot.name)

====
